---- MODULE Spec2Model ----
(***************************************************************************)
(* State layer of the gale mod manager (src/unnamed/part_000, the most     *)
(* recent variant of src/src/lib/stores.ts): the published game / profile  *)
(* / category slices, the two persisted query stores, and the refresh      *)
(* cascade that talks to the backend through invokeCommand and to the      *)
(* Thunderstore catalog through fetch.                                     *)
(***************************************************************************)
EXTENDS Integers, Sequences, FiniteSets, TLC

\* ------------------------------------------------------------------ bounds
\* number of calls the user interface makes after module initialisation
MaxOps == 1

\* ------------------------------------------------------- JavaScript values
\* A JavaScript value that JSON can carry. k is the kind; s the string (or
\* the key of an object member), n the number, items the array elements or
\* the object members in property order.
JsVal(k, s, n, items) == [k |-> k, s |-> s, n |-> n, items |-> items]
Undefined == JsVal("undefined", "", 0, <<>>)
Null == JsVal("null", "", 0, <<>>)
Bool(b) == JsVal(IF b THEN "true" ELSE "false", "", 0, <<>>)
Num(n) == JsVal("number", "", n, <<>>)
Str(s) == JsVal("string", s, 0, <<>>)
Arr(items) == JsVal("array", "", 0, items)
Member(key, v) == JsVal("member", key, 0, <<v>>)
Obj(members) == JsVal("object", "", 0, members)

IsObject(v) == v.k \in {"object", "array"}

\* ------------------------------------------------------------ JSON texts
\* A JSON text is the sequence of its tokens.
Tok(t, s, n) == [t |-> t, s |-> s, n |-> n]
Punct(c) == Tok("punct", c, 0)
Lit(w) == Tok(w, "", 0)
NumTok(n) == Tok("number", "", n)
StrTok(s) == Tok("string", s, 0)

RECURSIVE JSONstringify(_), stringifyList(_)
stringifyList(items) ==
  IF items = <<>> THEN <<>>
  ELSE JSONstringify(Head(items))
       \o (IF Len(items) > 1 THEN <<Punct(",")>> \o stringifyList(Tail(items))
           ELSE <<>>)

JSONstringify(v) ==
  CASE v.k = "number" -> <<NumTok(v.n)>>
    [] v.k = "string" -> <<StrTok(v.s)>>
    [] v.k = "array"  -> <<Punct("[")>> \o stringifyList(v.items) \o <<Punct("]")>>
    [] v.k = "object" -> <<Punct("{")>> \o stringifyList(v.items) \o <<Punct("}")>>
    [] v.k = "member" -> <<StrTok(v.s), Punct(":")>> \o JSONstringify(v.items[1])
    [] OTHER          -> <<Lit(v.k)>>

ParseFail == [ok |-> FALSE, val |-> Undefined, rest |-> <<>>]
Parsed(v, rest) == [ok |-> TRUE, val |-> v, rest |-> rest]

RECURSIVE parseValue(_), parseElements(_, _), parseMembers(_, _)
parseValue(toks) ==
  IF toks = <<>> THEN ParseFail
  ELSE LET h == Head(toks)
           r == Tail(toks)
       IN CASE h.t = "null"   -> Parsed(Null, r)
            [] h.t = "true"   -> Parsed(Bool(TRUE), r)
            [] h.t = "false"  -> Parsed(Bool(FALSE), r)
            [] h.t = "number" -> Parsed(Num(h.n), r)
            [] h.t = "string" -> Parsed(Str(h.s), r)
            [] h = Punct("[") ->
                 IF r # <<>> /\ Head(r) = Punct("]") THEN Parsed(Arr(<<>>), Tail(r))
                 ELSE parseElements(r, <<>>)
            [] h = Punct("{") ->
                 IF r # <<>> /\ Head(r) = Punct("}") THEN Parsed(Obj(<<>>), Tail(r))
                 ELSE parseMembers(r, <<>>)
            [] OTHER -> ParseFail

parseElements(toks, acc) ==
  LET e == parseValue(toks) IN
  IF ~e.ok \/ e.rest = <<>> THEN ParseFail
  ELSE IF Head(e.rest) = Punct(",") THEN parseElements(Tail(e.rest), Append(acc, e.val))
  ELSE IF Head(e.rest) = Punct("]") THEN Parsed(Arr(Append(acc, e.val)), Tail(e.rest))
  ELSE ParseFail

parseMembers(toks, acc) ==
  IF Len(toks) < 3 \/ toks[1].t # "string" \/ toks[2] # Punct(":") THEN ParseFail
  ELSE LET e == parseValue(SubSeq(toks, 3, Len(toks)))
           m == Member(toks[1].s, e.val)
       IN IF ~e.ok \/ e.rest = <<>> THEN ParseFail
          ELSE IF Head(e.rest) = Punct(",") THEN parseMembers(Tail(e.rest), Append(acc, m))
          ELSE IF Head(e.rest) = Punct("}") THEN Parsed(Obj(Append(acc, m)), Tail(e.rest))
          ELSE ParseFail

\* JSON.parse: the value of the text, or a SyntaxError (ok = FALSE) when the
\* text is not exactly one JSON value.
JSONparse(text) ==
  LET p == parseValue(text) IN
  IF p.ok /\ p.rest = <<>> THEN [ok |-> TRUE, val |-> p.val]
  ELSE [ok |-> FALSE, val |-> Undefined]

\* ---------------------------------------------------------------- queries
QueryModsArgs(maxCount, searchTerm, nsfw, deprecated, disabled, sortBy) ==
  Obj(<< Member("maxCount", Num(maxCount)),
         Member("searchTerm", Str(searchTerm)),
         Member("includeCategories", Arr(<<>>)),
         Member("excludeCategories", Arr(<<>>)),
         Member("includeNsfw", Bool(nsfw)),
         Member("includeDeprecated", Bool(deprecated)),
         Member("includeDisabled", Bool(disabled)),
         Member("sortBy", Str(sortBy)),
         Member("sortOrder", Str("Descending")) >>)

defaultModQuery == QueryModsArgs(20, "", FALSE, FALSE, FALSE, "LastUpdated")
defaultProfileQuery == QueryModsArgs(20, "", TRUE, TRUE, TRUE, "Custom")

Keys == {"modQuery", "profileQuery"}
DefaultOf(key) == IF key = "modQuery" THEN defaultModQuery ELSE defaultProfileQuery


\* A query the user has customised in the mod list, and one that only a
\* later edit produces (never found in storage at start).
customQuery == QueryModsArgs(20, "foo", FALSE, FALSE, FALSE, "LastUpdated")
editedQuery == QueryModsArgs(40, "bar", TRUE, FALSE, FALSE, "Downloads")

IsMember(m, key, kinds) == m.k = "member" /\ m.s = key /\ m.items[1].k \in kinds

\* The shape of QueryModsArgs: an object carrying the nine query fields.
IsQuery(v) ==
  /\ v.k = "object"
  /\ Len(v.items) = 9
  /\ IsMember(v.items[1], "maxCount", {"number"})
  /\ IsMember(v.items[2], "searchTerm", {"string"})
  /\ IsMember(v.items[3], "includeCategories", {"array"})
  /\ IsMember(v.items[4], "excludeCategories", {"array"})
  /\ IsMember(v.items[5], "includeNsfw", {"true", "false"})
  /\ IsMember(v.items[6], "includeDeprecated", {"true", "false"})
  /\ IsMember(v.items[7], "includeDisabled", {"true", "false"})
  /\ IsMember(v.items[8], "sortBy", {"string"})
  /\ IsMember(v.items[9], "sortOrder", {"string"})

\* ---------------------------------------------------------- localStorage
NoItem == [has |-> FALSE, text |-> <<>>]
Item(text) == [has |-> TRUE, text |-> text]
getItem(storage, key) == storage[key]
setItem(storage, key, text) == [storage EXCEPT ![key] = Item(text)]

\* What a previous session, or anything else writing the same keys, may have
\* left under a query key: nothing, the empty string, truncated JSON, JSON
\* of the wrong shape, or a serialized query.
StoredPayloads ==
  { NoItem,
    Item(<<>>),
    Item(SubSeq(JSONstringify(defaultModQuery), 1, 6)),
    Item(JSONstringify(Num(5))),
    Item(JSONstringify(Null)),
    Item(JSONstringify(Obj(<<>>))),
    Item(JSONstringify(customQuery)),
    Item(JSONstringify(defaultProfileQuery)) }

WellFormedQuery(item) ==
  /\ item.has
  /\ JSONparse(item.text).ok
  /\ IsQuery(JSONparse(item.text).val)

\* ------------------------------------------------------ svelte writable
\* writable.set(new) replaces the value and runs the subscribers unless the
\* old value is a primitive equal to the new one.
safe_not_equal(a, b, aIsObject) == a # b \/ aIsObject

\* ------------------------------------------------------- the query store
loadQuery(storage, key, getDefault) ==
  LET json == getItem(storage, key) IN
  IF json.has /\ json.text # <<>>
  THEN LET p == JSONparse(json.text) IN
       IF p.ok THEN p.val ELSE getDefault
  ELSE getDefault

\* faulty variant: the subscriber is never registered: nothing is written
persistDropped(storage, key, value) == storage

\* faulty variant: every store writes under the same key
persistSharedKey(storage, key, value) ==
  setItem(storage, "modQuery", JSONstringify(value))

\* The store's subscriber: localStorage.setItem(key, JSON.stringify(value)).
persist(storage, key, value) == setItem(storage, key, JSONstringify(value))

\* createQueryStore: the store's first value, and storage after subscribe
\* has run the subscriber once.
createQueryStore(storage, key, getDefault) ==
  LET value == loadQuery(storage, key, getDefault) IN
  [value |-> value, storage |-> persist(storage, key, value)]

\* faulty variant: set replaces the value and leaves the write for later
storeSetDeferred(storage, key, old, new) ==
  [value |-> new, storage |-> storage]

\* store.set(new) on a query store.
storeSet(storage, key, old, new) ==
  IF safe_not_equal(old, new, IsObject(old))
  THEN [value |-> new, storage |-> persist(storage, key, new)]
  ELSE [value |-> old, storage |-> storage]

\* faulty variant: the subscriber resets the mod query only
resetModQueryOnly(storage, mq, pq) ==
  LET m == storeSet(storage, "modQuery", mq, defaultModQuery)
  IN [modQuery |-> m.value, profileQuery |-> pq, storage |-> m.storage]

\* The activeGame subscriber: both queries back to their defaults.
resetQueries(storage, mq, pq) ==
  LET m == storeSet(storage, "modQuery", mq, defaultModQuery)
      p == storeSet(m.storage, "profileQuery", pq, defaultProfileQuery)
  IN [modQuery |-> m.value, profileQuery |-> p.value, storage |-> p.storage]


\* ------------------------------------------------------ backend and catalog
GameIds == {"A", "B", "C"}
\* info.all, in the backend's order
AllGames == <<"A", "B", "C">>
\* info.favorites
Favorites == <<"B">>
\* the indexes the user interface passes to setActiveProfile
MaxIndex == 1

ProfileInfo(name, modCount) == [name |-> name, modCount |-> modCount]
\* the profiles the backend keeps for each game (none for game C)
ProfilesOf(g) ==
  IF g = "A" THEN <<ProfileInfo("Default", 0), ProfileInfo("Modded", 2)>>
  ELSE IF g = "B" THEN <<ProfileInfo("Solo", 1)>>
  ELSE <<>>

PackageCategory(id, name) == [id |-> id, name |-> name]
\* response.data.package_categories of the catalog for each community
CatalogOf(g) ==
  IF g = "A" THEN <<PackageCategory("a1", "Mods")>>
  ELSE IF g = "B" THEN <<PackageCategory("b1", "Maps"), PackageCategory("b2", "Tools")>>
  ELSE <<PackageCategory("c1", "Misc")>>

\* --------------------------------------------------------------- values
NoGame == [id |-> ""]
Game(g) == [id |-> g]
NullProfile == ProfileInfo("<null>", 0)
UndefinedProfile == ProfileInfo("<undefined>", 0)

includes(list, x) == \E i \in DOMAIN list : list[i] = x

\* faulty variant: only the first favorite is looked at
stampFirstFavorite(all, favorites) ==
  [i \in DOMAIN all |->
     [id |-> all[i], favorite |-> favorites # <<>> /\ favorites[1] = all[i]]]

\* games = info.all with game.favorite stamped from info.favorites
stampFavorites(all, favorites) ==
  [i \in DOMAIN all |-> [id |-> all[i], favorite |-> includes(favorites, all[i])]]

\* faulty variant: an index past the end selects the last profile
indexProfilesClamped(list, index) ==
  IF list = <<>> \/ index < 0 THEN UndefinedProfile
  ELSE IF index < Len(list) THEN list[index + 1] ELSE list[Len(list)]

\* profiles[activeProfileIndex] (JavaScript arrays start at 0)
indexProfiles(list, index) ==
  IF index >= 0 /\ index < Len(list) THEN list[index + 1] ELSE UndefinedProfile

\* ------------------------------------------------------------------ state
VARIABLES
  bActive,            \* backend: the active game
  bFavorites,         \* backend: the favorites list
  bIndex,             \* backend: the active profile index of each game
  games,              \* export let games
  categories,         \* writable categories
  activeGame,         \* writable activeGame
  activeProfileIndex, \* export let activeProfileIndex
  profiles,           \* export let profiles
  activeProfile,      \* writable activeProfile
  modQuery,           \* the value of the modQuery store
  profileQuery,       \* the value of the profileQuery store
  localStorage,       \* localStorage, the two query keys
  fresh,              \* the value of a second store constructed over a key
  calls               \* every call of an async function, in call order

backend == <<bActive, bFavorites, bIndex>>
slices == <<games, categories, activeGame, activeProfileIndex, profiles, activeProfile>>
queries == <<modQuery, profileQuery, localStorage>>
vars == <<bActive, bFavorites, bIndex, games, categories, activeGame,
          activeProfileIndex, profiles, activeProfile, modQuery, profileQuery,
          localStorage, fresh, calls>>

\* ------------------------------------------------------------ async calls
\* A call of one of the five async functions. Each awaits exactly one
\* request, so the call and its request share a record:
\*   sent      the request is on its way, the backend has not answered
\*   ok        the backend has answered, the answer (data) is on its way
\*   resolved / rejected   the promise the call returned has settled
\* parent is the call whose body made this call, 0 for the user interface
\* and the module body.
NoData == [active |-> "", favorites |-> <<>>, activeIndex |-> 0]
Call(fn, parent, gid, idx, st) ==
  [fn |-> fn, parent |-> parent, gid |-> gid, idx |-> idx, st |-> st, data |-> NoData]

InFlight(c) == calls[c].st \in {"sent", "ok"}
Quiescent == \A c \in DOMAIN calls : ~InFlight(c)
settle(cs, c, st) == [cs EXCEPT ![c].st = st, ![c].data = NoData]

\* the calls made by the user interface and by the module body
UserCalls == {c \in DOMAIN calls : calls[c].parent = 0}

\* faulty variant: refreshCategories without the early return
startRefreshCategoriesUnguarded(parent, game) ==
  Call("refreshCategories", parent, game.id, 0, "sent")

\* refreshCategories() up to its await: no request without an active game.
startRefreshCategories(parent, game) ==
  IF game.id = "" THEN Call("refreshCategories", parent, "", 0, "resolved")
  ELSE Call("refreshCategories", parent, game.id, 0, "sent")

\* ------------------------------------------------------------------- Init
\* faulty variant: the activeGame subscriber is not run at registration
moduleQueriesKeepStored(storage) ==
  LET m == createQueryStore(storage, "modQuery", defaultModQuery)
      p == createQueryStore(m.storage, "profileQuery", defaultProfileQuery)
  IN [modQuery |-> m.value, profileQuery |-> p.value, storage |-> p.storage]

\* The module body: refreshGames() is called, the two query stores are
\* created over whatever storage holds, and subscribing to activeGame runs
\* the reset once.
moduleQueries(storage) ==
  LET m == createQueryStore(storage, "modQuery", defaultModQuery)
      p == createQueryStore(m.storage, "profileQuery", defaultProfileQuery)
  IN resetQueries(p.storage, m.value, p.value)

Init ==
  /\ bActive \in GameIds
  /\ bFavorites = Favorites
  /\ bIndex = [g \in GameIds |-> 0]
  /\ games = <<>>
  /\ categories = <<>>
  /\ activeGame = NoGame
  /\ activeProfileIndex = 0
  /\ profiles = <<>>
  /\ activeProfile = NullProfile
  /\ \E stored \in [Keys -> StoredPayloads] :
       LET q == moduleQueries(stored) IN
       /\ modQuery = q.modQuery
       /\ profileQuery = q.profileQuery
       /\ localStorage = q.storage
  /\ fresh = [k \in Keys |-> Undefined]
  /\ calls = <<Call("refreshGames", 0, "", 0, "sent")>>

\* ------------------------------------------------- the user interface calls
CanCall == Cardinality(UserCalls) <= MaxOps

refreshGamesCall ==
  /\ CanCall
  /\ calls' = Append(calls, Call("refreshGames", 0, "", 0, "sent"))
  /\ UNCHANGED <<backend, slices, queries, fresh>>

\* faulty variant: the active game is published before the round trip
setActiveGameCallOptimistic(g) ==
  /\ CanCall
  /\ calls' = Append(calls, Call("setActiveGame", 0, g, 0, "sent"))
  /\ activeGame' = Game(g)
  /\ UNCHANGED <<backend, games, categories, activeProfileIndex, profiles,
                 activeProfile, queries, fresh>>

\* setActiveGame(game) up to its await: line 94.
setActiveGameCall(g) ==
  /\ CanCall
  /\ calls' = Append(calls, Call("setActiveGame", 0, g, 0, "sent"))
  /\ UNCHANGED <<backend, slices, queries, fresh>>

refreshCategoriesCall ==
  /\ CanCall
  /\ calls' = Append(calls, startRefreshCategories(0, activeGame))
  /\ UNCHANGED <<backend, slices, queries, fresh>>

refreshProfilesCall ==
  /\ CanCall
  /\ calls' = Append(calls, Call("refreshProfiles", 0, "", 0, "sent"))
  /\ UNCHANGED <<backend, slices, queries, fresh>>

\* faulty variant: the refresh is issued without awaiting the command
setActiveProfileCallUnawaited(i) ==
  /\ CanCall
  /\ calls' = calls \o << Call("setActiveProfile", 0, "", i, "sent"),
                          Call("refreshProfiles", Len(calls) + 1, "", 0, "sent") >>
  /\ UNCHANGED <<backend, slices, queries, fresh>>

\* setActiveProfile(index) up to its await: line 117.
setActiveProfileCall(i) ==
  /\ CanCall
  /\ calls' = Append(calls, Call("setActiveProfile", 0, "", i, "sent"))
  /\ UNCHANGED <<backend, slices, queries, fresh>>

\* modQuery.set(v) / profileQuery.set(v) from the mod list pages
setQuery(key, v) ==
  /\ LET r == storeSet(localStorage, key,
                       IF key = "modQuery" THEN modQuery ELSE profileQuery, v)
     IN /\ localStorage' = r.storage
        /\ IF key = "modQuery"
           THEN modQuery' = r.value /\ UNCHANGED profileQuery
           ELSE profileQuery' = r.value /\ UNCHANGED modQuery
  /\ UNCHANGED <<backend, slices, fresh, calls>>

\* --------------------------------------------------- backend and catalog
\* The backend answers a command: set_active_game and set_active_profile
\* change its state, get_game_info and get_profile_info read it.
backendAnswers(c) ==
  /\ calls[c].st = "sent"
  /\ calls[c].fn # "refreshCategories"
  /\ LET fn == calls[c].fn IN
     /\ bActive' = IF fn = "setActiveGame" THEN calls[c].gid ELSE bActive
     /\ bIndex' = IF fn = "setActiveProfile"
                  THEN [bIndex EXCEPT ![bActive] = calls[c].idx] ELSE bIndex
     /\ calls' = [calls EXCEPT ![c].st = "ok",
                    ![c].data = CASE fn = "refreshGames" ->
                                       [active |-> bActive, favorites |-> bFavorites,
                                        activeIndex |-> 0]
                                  [] fn = "refreshProfiles" ->
                                       [active |-> bActive, favorites |-> <<>>,
                                        activeIndex |-> bIndex[bActive]]
                                  [] OTHER -> NoData]
  /\ UNCHANGED <<bFavorites, slices, queries, fresh>>

\* ------------------------------------------------------- the continuations
\* activeGame.set(game): the new value and whether the subscribers run.
publishActiveGame(old, game) ==
  IF safe_not_equal(old, game, old # NoGame)
  THEN [value |-> game, notified |-> TRUE]
  ELSE [value |-> old, notified |-> FALSE]

\* faulty variant: a response that arrives after the response of a later
\* refreshGames is dropped
gameInfoArrivesSequenced(c) ==
  /\ calls[c].fn = "refreshGames"
  /\ calls[c].st = "ok"
  /\ LET stale == \E d \in DOMAIN calls :
                    d > c /\ calls[d].fn = "refreshGames" /\ calls[d].st = "resolved"
         info == calls[c].data
         pub == IF stale THEN [value |-> activeGame, notified |-> FALSE]
                ELSE publishActiveGame(activeGame, Game(info.active))
         q == IF pub.notified THEN resetQueries(localStorage, modQuery, profileQuery)
              ELSE [modQuery |-> modQuery, profileQuery |-> profileQuery,
                    storage |-> localStorage]
     IN /\ games' = IF stale THEN games ELSE stampFavorites(AllGames, info.favorites)
        /\ activeGame' = pub.value
        /\ modQuery' = q.modQuery
        /\ profileQuery' = q.profileQuery
        /\ localStorage' = q.storage
        /\ calls' = settle(calls, c, "resolved")
                            \o << Call("refreshProfiles", c, "", 0, "sent"),
                                  startRefreshCategories(c, pub.value) >>
  /\ UNCHANGED <<backend, categories, activeProfileIndex, profiles, activeProfile, fresh>>

\* faulty variant: the catalog refresh is left to the caller
gameInfoArrivesProfilesOnly(c) ==
  /\ calls[c].fn = "refreshGames"
  /\ calls[c].st = "ok"
  /\ LET info == calls[c].data
         pub == publishActiveGame(activeGame, Game(info.active))
         q == IF pub.notified THEN resetQueries(localStorage, modQuery, profileQuery)
              ELSE [modQuery |-> modQuery, profileQuery |-> profileQuery,
                    storage |-> localStorage]
     IN /\ games' = stampFavorites(AllGames, info.favorites)
        /\ activeGame' = pub.value
        /\ modQuery' = q.modQuery
        /\ profileQuery' = q.profileQuery
        /\ localStorage' = q.storage
        /\ calls' = Append(settle(calls, c, "resolved"),
                           Call("refreshProfiles", c, "", 0, "sent"))
  /\ UNCHANGED <<backend, categories, activeProfileIndex, profiles, activeProfile, fresh>>

\* refreshGames after its await: lines 82-90.
gameInfoArrives(c) ==
  /\ calls[c].fn = "refreshGames"
  /\ calls[c].st = "ok"
  /\ LET info == calls[c].data
         pub == publishActiveGame(activeGame, Game(info.active))
         q == IF pub.notified THEN resetQueries(localStorage, modQuery, profileQuery)
              ELSE [modQuery |-> modQuery, profileQuery |-> profileQuery,
                    storage |-> localStorage]
     IN /\ games' = stampFavorites(AllGames, info.favorites)
        /\ activeGame' = pub.value
        /\ modQuery' = q.modQuery
        /\ profileQuery' = q.profileQuery
        /\ localStorage' = q.storage
        /\ calls' = settle(calls, c, "resolved")
                            \o << Call("refreshProfiles", c, "", 0, "sent"),
                                  startRefreshCategories(c, pub.value) >>
  /\ UNCHANGED <<backend, categories, activeProfileIndex, profiles, activeProfile, fresh>>

\* faulty variant: the refresh is called once more when it has been called
setActiveGameReturnsTwice(c) ==
  /\ calls[c].fn = "setActiveGame"
  /\ calls[c].st = "ok"
  /\ calls' = settle(calls, c, "resolved")
                 \o << Call("refreshGames", c, "", 0, "sent"),
                       Call("refreshGames", c, "", 0, "sent") >>
  /\ UNCHANGED <<backend, slices, queries, fresh>>

\* setActiveGame after its await: line 95.
setActiveGameReturns(c) ==
  /\ calls[c].fn = "setActiveGame"
  /\ calls[c].st = "ok"
  /\ calls' = Append(settle(calls, c, "resolved"),
                             Call("refreshGames", c, "", 0, "sent"))
  /\ UNCHANGED <<backend, slices, queries, fresh>>

\* refreshCategories after its await: line 105. The catalog is the same
\* whenever it is read, so its answer needs no step of its own.
categoriesArrive(c) ==
  /\ calls[c].fn = "refreshCategories"
  /\ calls[c].st = "sent"
  /\ categories' = CatalogOf(calls[c].gid)
  /\ calls' = settle(calls, c, "resolved")
  /\ UNCHANGED <<backend, games, activeGame, activeProfileIndex, profiles,
                 activeProfile, queries, fresh>>

\* faulty variant: activeProfile is published before profiles is replaced
profileInfoArrivesStaleList(c) ==
  /\ calls[c].fn = "refreshProfiles"
  /\ calls[c].st = "ok"
  /\ LET info == calls[c].data IN
     /\ activeProfileIndex' = info.activeIndex
     /\ activeProfile' = indexProfiles(profiles, info.activeIndex)
     /\ profiles' = ProfilesOf(info.active)
  /\ calls' = settle(calls, c, "resolved")
  /\ UNCHANGED <<backend, games, categories, activeGame, queries, fresh>>

\* refreshProfiles after its await: lines 111-113.
profileInfoArrives(c) ==
  /\ calls[c].fn = "refreshProfiles"
  /\ calls[c].st = "ok"
  /\ LET info == calls[c].data IN
     /\ activeProfileIndex' = info.activeIndex
     /\ profiles' = ProfilesOf(info.active)
     /\ activeProfile' = indexProfiles(ProfilesOf(info.active), info.activeIndex)
  /\ calls' = settle(calls, c, "resolved")
  /\ UNCHANGED <<backend, games, categories, activeGame, queries, fresh>>

\* setActiveProfile after its await: line 118.
setActiveProfileReturns(c) ==
  /\ calls[c].fn = "setActiveProfile"
  /\ calls[c].st = "ok"
  /\ calls' = Append(settle(calls, c, "resolved"),
                             Call("refreshProfiles", c, "", 0, "sent"))
  /\ UNCHANGED <<backend, slices, queries, fresh>>

\* faulty variant: the failure of a cascaded refresh rejects the call
\* that started it
callRejectsWithCaller(c) ==
  /\ calls[c].st = "sent"
  /\ calls' = IF calls[c].parent = 0 THEN settle(calls, c, "rejected")
              ELSE settle(settle(calls, c, "rejected"), calls[c].parent, "rejected")
  /\ UNCHANGED <<backend, slices, queries, fresh>>

\* faulty variant: a failed request is retried
callRejectsAndRetries(c) ==
  /\ calls[c].st = "sent"
  /\ calls' = Append(settle(calls, c, "rejected"),
                     Call(calls[c].fn, calls[c].parent, calls[c].gid, calls[c].idx, "sent"))
  /\ UNCHANGED <<backend, slices, queries, fresh>>

\* The awaited invokeCommand or fetch fails (a failed command changes
\* nothing in the backend): the await throws and the call rejects.
callRejects(c) ==
  /\ calls[c].st = "sent"
  /\ calls' = settle(calls, c, "rejected")
  /\ UNCHANGED <<backend, slices, queries, fresh>>

\* ------------------------------------------------------------------- Next
Next ==
  \/ refreshGamesCall
  \/ \E g \in GameIds : setActiveGameCall(g)
  \/ refreshCategoriesCall
  \/ refreshProfilesCall
  \/ \E i \in 0..MaxIndex : setActiveProfileCall(i)
  \/ \E key \in Keys : setQuery(key, customQuery)
  \/ \E c \in DOMAIN calls : backendAnswers(c)
  \/ \E c \in DOMAIN calls : gameInfoArrives(c)
  \/ \E c \in DOMAIN calls : setActiveGameReturns(c)
  \/ \E c \in DOMAIN calls : categoriesArrive(c)
  \/ \E c \in DOMAIN calls : profileInfoArrives(c)
  \/ \E c \in DOMAIN calls : setActiveProfileReturns(c)
  \/ \E c \in DOMAIN calls : callRejects(c)

Spec == Init /\ [][Next]_vars

\* Every request is answered in the end, by a response or by a failure:
\* the steps of the backend, of the catalog and of the continuations.
Responses ==
  \E c \in DOMAIN calls :
    \/ backendAnswers(c)
    \/ gameInfoArrives(c)
    \/ setActiveGameReturns(c)
    \/ categoriesArrive(c)
    \/ profileInfoArrives(c)
    \/ setActiveProfileReturns(c)
    \/ callRejects(c)

SpecLive == Spec /\ WF_vars(Responses)


\* --------------------------------------------- the query store on its own
\* createQueryStore and the stores it returns, over any storage content:
\* sessions that create the two stores (lines 72-73), edit them and end,
\* and a second store constructed over a key while the first one is alive.
valueOf(key) == IF key = "modQuery" THEN modQuery ELSE profileQuery
Defaults == {defaultModQuery, defaultProfileQuery}
EditedQueries == {customQuery, editedQuery}

InitStore ==
  /\ bActive = "A"
  /\ bFavorites = Favorites
  /\ bIndex = [g \in GameIds |-> 0]
  /\ games = <<>>
  /\ categories = <<>>
  /\ activeGame = NoGame
  /\ activeProfileIndex = 0
  /\ profiles = <<>>
  /\ activeProfile = NullProfile
  /\ modQuery = Undefined
  /\ profileQuery = Undefined
  /\ localStorage \in [Keys -> StoredPayloads]
  /\ fresh = [k \in Keys |-> Undefined]
  /\ calls = <<>>

\* export let modQuery / profileQuery = createQueryStore(key, default)
createStore(key) ==
  /\ valueOf(key) = Undefined
  /\ LET r == createQueryStore(localStorage, key, DefaultOf(key)) IN
     /\ localStorage' = r.storage
     /\ IF key = "modQuery"
        THEN modQuery' = r.value /\ UNCHANGED profileQuery
        ELSE profileQuery' = r.value /\ UNCHANGED modQuery
  /\ UNCHANGED <<backend, slices, fresh, calls>>

\* store.set(v) on a store that exists
editStore(key, v) ==
  /\ valueOf(key) # Undefined
  /\ setQuery(key, v)

\* a fresh createQueryStore(key, getDefault) over the same key
createFresh(key, getDefault) ==
  /\ valueOf(key) # Undefined
  /\ fresh[key] = Undefined
  /\ LET r == createQueryStore(localStorage, key, getDefault) IN
     /\ localStorage' = r.storage
     /\ fresh' = [fresh EXCEPT ![key] = r.value]
  /\ UNCHANGED <<backend, slices, modQuery, profileQuery, calls>>

\* the fresh store is dropped
dropFresh(key) ==
  /\ fresh[key] # Undefined
  /\ fresh' = [fresh EXCEPT ![key] = Undefined]
  /\ UNCHANGED <<backend, slices, queries, calls>>

\* the session ends: the stores go, storage stays
endSession ==
  /\ modQuery # Undefined
  /\ profileQuery # Undefined
  /\ modQuery' = Undefined
  /\ profileQuery' = Undefined
  /\ fresh' = [k \in Keys |-> Undefined]
  /\ UNCHANGED <<backend, slices, localStorage, calls>>

NextStore ==
  \/ \E key \in Keys : createStore(key)
  \/ \E key \in Keys : \E v \in EditedQueries : editStore(key, v)
  \/ \E key \in Keys : \E d \in Defaults : createFresh(key, d)
  \/ \E key \in Keys : dropFresh(key)
  \/ endSession

SpecStore == InitStore /\ [][NextStore]_vars

\* ------------------------------------------------------ module start
\* The module body over what earlier sessions left in storage: the page is
\* loaded (the module body runs), the pages set the queries, the session
\* ends, and the page is loaded again.
MaxSessions == 3

\* The module body, lines 16-78: refreshGames() is called, the two stores
\* are created from storage, and subscribing to activeGame runs the reset.
moduleStart ==
  /\ modQuery = Undefined
  /\ profileQuery = Undefined
  /\ Len(calls) < MaxSessions
  /\ LET q == moduleQueries(localStorage) IN
     /\ modQuery' = q.modQuery
     /\ profileQuery' = q.profileQuery
     /\ localStorage' = q.storage
  /\ calls' = Append(calls, Call("refreshGames", 0, "", 0, "sent"))
  /\ UNCHANGED <<backend, slices, fresh>>

NextStart ==
  \/ moduleStart
  \/ \E key \in Keys : \E v \in EditedQueries : editStore(key, v)
  \/ endSession

SpecStart == InitStore /\ [][NextStart]_vars

\* ------------------------------------------- refreshGames and favorites
\* refreshGames against a backend whose favorites list changes between the
\* requests: the module body's call and the calls of the user interface,
\* their answers and the delivery of the answers.
FavoriteLists == {<<>>, <<"A">>, <<"B">>, <<"A", "B">>}

InitGames ==
  /\ bActive \in GameIds
  /\ bFavorites \in FavoriteLists
  /\ bIndex = [g \in GameIds |-> 0]
  /\ games = <<>>
  /\ categories = <<>>
  /\ activeGame = NoGame
  /\ activeProfileIndex = 0
  /\ profiles = <<>>
  /\ activeProfile = NullProfile
  /\ LET q == moduleQueries([k \in Keys |-> NoItem]) IN
     /\ modQuery = q.modQuery
     /\ profileQuery = q.profileQuery
     /\ localStorage = q.storage
  /\ fresh = [k \in Keys |-> Undefined]
  /\ calls = <<Call("refreshGames", 0, "", 0, "sent")>>

\* the favorites list of the backend is replaced (info.favorites of later
\* answers)
favoritesChange(list) ==
  /\ list # bFavorites
  /\ bFavorites' = list
  /\ UNCHANGED <<bActive, bIndex, slices, queries, fresh, calls>>

NextGames ==
  \/ refreshGamesCall
  \/ \E list \in FavoriteLists : favoritesChange(list)
  \/ \E c \in DOMAIN calls : calls[c].fn = "refreshGames" /\ backendAnswers(c)
  \/ \E c \in DOMAIN calls : gameInfoArrives(c)

SpecGames == InitGames /\ [][NextGames]_vars

\* =================================================================== claims

\* C4: loadQuery(key, getDefault) returns exactly getDefault() whenever the
\* stored payload is absent or is not a well-formed query (empty string,
\* truncated JSON, JSON of the wrong shape): a store created over such a
\* payload starts with its default.
C4_LoadQueryFallsBack ==
  [][\A k \in Keys :
       (valueOf(k) = Undefined /\ valueOf(k)' # Undefined
          /\ ~WellFormedQuery(localStorage[k]))
       => valueOf(k)' = DefaultOf(k)]_vars

\* C5: round trip through storage: a fresh createQueryStore(key, d2), with
\* any default d2, over the key of a store that was created and then set to
\* v, starts with the value v.
C5_RoundTrip ==
  [][\A k \in Keys :
       (fresh[k] = Undefined /\ fresh'[k] # Undefined) => fresh'[k] = valueOf(k)]_vars

\* C5 witness: a fresh store that started with a value only set(v) produces
C5_Witness == \E k \in Keys : fresh[k] = editedQuery /\ valueOf(k) = editedQuery


\* ------------------------------------------------- helpers of the claims
\* the call made by the user interface (or the module body) that c descends from
RECURSIVE rootOf(_, _)
rootOf(cs, c) == IF cs[c].parent = 0 THEN c ELSE rootOf(cs, cs[c].parent)

\* call c settles in this step, as st
Settles(c, st) == calls[c].st \in {"sent", "ok"} /\ calls'[c].st = st
NoFailure == \A c \in DOMAIN calls : calls[c].st # "rejected"
Commands == {"refreshGames", "refreshProfiles", "setActiveGame", "setActiveProfile"}

\* C1: when no command has failed and every request has been answered, the
\* published active game is the backend's active game and the published
\* profiles / activeProfileIndex are the backend's current profile envelope.
C1_PublishedMatchesBackend ==
  (Quiescent /\ NoFailure)
    => /\ activeGame = Game(bActive)
       /\ profiles = ProfilesOf(bActive)
       /\ activeProfileIndex = bIndex[bActive]

\* C2: every step that changes the published active game, the first publish
\* included, leaves modQuery and profileQuery at their defaults.
C2_ResetOnGameChange ==
  [][activeGame' # activeGame
       => modQuery' = defaultModQuery /\ profileQuery' = defaultProfileQuery]_vars

\* C2 witness: the active game was switched to B by setActiveGame and the
\* queries are the defaults
C2_Witness ==
  /\ activeGame = Game("B")
  /\ modQuery = defaultModQuery
  /\ profileQuery = defaultProfileQuery
  /\ \E c \in DOMAIN calls :
       /\ calls[c].fn = "refreshGames"
       /\ calls[c].parent # 0
       /\ calls[c].st = "resolved"

\* C3: the queries are reset once per new active-game value: a refreshGames
\* whose response names the game that is already active leaves modQuery and
\* profileQuery as the user set them.
C3_ResetOncePerValue ==
  [][\A c \in DOMAIN calls :
       (calls[c].fn = "refreshGames" /\ Settles(c, "resolved")
          /\ activeGame' = activeGame)
       => (modQuery' = modQuery /\ profileQuery' = profileQuery)]_vars

\* C6: when the command a call awaits fails, the call rejects, no other call
\* is made or changed, and games, activeGame, profiles, activeProfileIndex,
\* activeProfile, categories and both queries stay as they were.
C6_FailureChangesNothing ==
  [][\A c \in DOMAIN calls :
       (calls[c].fn \in Commands /\ Settles(c, "rejected"))
       => /\ calls' = [calls EXCEPT ![c].st = "rejected"]
          /\ UNCHANGED <<slices, modQuery, profileQuery>>]_vars

\* C6 witness: a set_active_game failed after a game had been published
C6_Witness ==
  /\ activeGame # NoGame
  /\ \E c \in DOMAIN calls : calls[c].fn = "setActiveGame" /\ calls[c].st = "rejected"

\* C7: a failure of a refresh started by setActiveGame, setActiveProfile or
\* refreshGames rejects the call the user interface made.
C7_FailureReachesCaller ==
  [][\A c \in DOMAIN calls :
       (calls[c].parent # 0 /\ Settles(c, "rejected"))
       => calls'[rootOf(calls, c)].st = "rejected"]_vars

\* C8: the published activeProfile is profiles[activeProfileIndex] whenever
\* the index is within the list.
C8_ActiveProfileIsIndexed ==
  (activeProfileIndex >= 0 /\ activeProfileIndex < Len(profiles))
    => activeProfile = profiles[activeProfileIndex + 1]

\* C8 witness: the envelope {activeIndex: 1, [Default, Modded]} was published
C8_Witness ==
  /\ activeProfileIndex = 1
  /\ profiles = ProfilesOf("A")
  /\ activeProfile = ProfileInfo("Modded", 2)

\* C9: refreshCategories called while no game is active issues no request,
\* raises no error and leaves categories (and everything else) unchanged.
C9_NoGameNoRequest ==
  [][(/\ Len(calls') = Len(calls) + 1
      /\ calls'[Len(calls')].fn = "refreshCategories"
      /\ calls'[Len(calls')].parent = 0
      /\ activeGame = NoGame)
     => /\ calls'[Len(calls')].st = "resolved"
        /\ UNCHANGED <<slices, queries, backend>>]_vars

\* C9 witness: the user interface called refreshCategories before any game
\* was published
C9_Witness ==
  /\ activeGame = NoGame
  /\ \E c \in DOMAIN calls :
       /\ calls[c].fn = "refreshCategories"
       /\ calls[c].parent = 0
       /\ calls[c].st = "resolved"

\* C10: when no request is in flight and no catalog fetch has failed, the
\* published categories are the catalog's list for the published active game.
C10_CategoriesOfActiveGame ==
  (/\ Quiescent
   /\ activeGame # NoGame
   /\ \A c \in DOMAIN calls :
        calls[c].fn = "refreshCategories" => calls[c].st = "resolved"
   /\ \E c \in DOMAIN calls : calls[c].fn = "refreshCategories")
    => categories = CatalogOf(activeGame.id)

\* C11: no local or optimistic update. The published activeGame changes only
\* in the step that delivers a get_game_info response, to that response's
\* active game; profiles, activeProfileIndex and activeProfile change only in
\* the step that delivers a get_profile_info response, to its content; the
\* step in which setActiveGame or setActiveProfile is called changes no slice.
C11_NoOptimisticUpdate ==
  [][/\ activeGame' # activeGame
          => \E c \in DOMAIN calls :
               /\ calls[c].fn = "refreshGames"
               /\ calls[c].st = "ok"
               /\ calls'[c].st = "resolved"
               /\ activeGame' = Game(calls[c].data.active)
     /\ <<profiles, activeProfileIndex, activeProfile>>'
            # <<profiles, activeProfileIndex, activeProfile>>
          => \E c \in DOMAIN calls :
               /\ calls[c].fn = "refreshProfiles"
               /\ calls[c].st = "ok"
               /\ calls'[c].st = "resolved"
               /\ profiles' = ProfilesOf(calls[c].data.active)
               /\ activeProfileIndex' = calls[c].data.activeIndex
               /\ activeProfile' = indexProfiles(profiles', activeProfileIndex')
     /\ (/\ Len(calls') = Len(calls) + 1
         /\ calls'[Len(calls')].fn \in {"setActiveGame", "setActiveProfile"})
          => UNCHANGED slices]_vars

\* C11 witness: set_active_game(B) has been answered by the backend, which
\* now has B active, and the client still publishes A and A's profiles
C11_Witness ==
  /\ \E c \in DOMAIN calls :
       calls[c].fn = "setActiveGame" /\ calls[c].gid = "B" /\ calls[c].st = "ok"
  /\ bActive = "B"
  /\ activeGame = Game("A")
  /\ profiles = ProfilesOf("A")

\* C12: the two query stores do not interfere. The keys are distinct; a
\* set on one store alone (modQuery.set or profileQuery.set from a page)
\* that changes its value leaves the other store's value and the other
\* store's storage entry as they were; and whenever the entry under a key
\* is rewritten, what is written is the serialization of that key's own store.
otherKey(key) == IF key = "modQuery" THEN "profileQuery" ELSE "modQuery"

C12_StoresDoNotInterfere ==
  [][/\ Cardinality(Keys) = 2
     /\ \A k \in Keys :
          /\ (UNCHANGED calls /\ valueOf(k)' # valueOf(k))
               => /\ valueOf(otherKey(k))' = valueOf(otherKey(k))
                  /\ localStorage'[otherKey(k)] = localStorage[otherKey(k)]
          /\ localStorage'[k] # localStorage[k]
               => localStorage'[k] = Item(JSONstringify(valueOf(k)'))]_vars

\* C12 witness: the mod query was set to the customised query and written
\* under 'modQuery', while the profile query and its entry hold the default
C12_Witness ==
  /\ modQuery = customQuery
  /\ profileQuery = defaultProfileQuery
  /\ localStorage["modQuery"] = Item(JSONstringify(customQuery))
  /\ localStorage["profileQuery"] = Item(JSONstringify(defaultProfileQuery))

\* the calls made in this step by the body of call c
madeBy(c) == {d \in DOMAIN calls' \ DOMAIN calls : calls'[d].parent = c}

\* C13: in the step in which a refreshGames call resolves, that call has
\* issued a get_profile_info request and, when the active game it published
\* is set, a catalog request for that game's id; neither has been answered.
C13_CascadeStartedAtResolve ==
  [][\A c \in DOMAIN calls :
       (calls[c].fn = "refreshGames" /\ Settles(c, "resolved"))
       => /\ \E p \in madeBy(c) :
               calls'[p].fn = "refreshProfiles" /\ calls'[p].st = "sent"
          /\ activeGame' # NoGame
               => \E q \in madeBy(c) :
                    /\ calls'[q].fn = "refreshCategories"
                    /\ calls'[q].st = "sent"
                    /\ calls'[q].gid = activeGame'.id]_vars

\* C13 witness: the refreshGames made by setActiveGame(B) has resolved and
\* both requests of its cascade are still unanswered
C13_Witness ==
  \E c \in DOMAIN calls :
    /\ calls[c].fn = "refreshGames"
    /\ calls[c].parent # 0
    /\ calls[c].st = "resolved"
    /\ activeGame = Game("B")
    /\ \E p, q \in DOMAIN calls :
         /\ calls[p].parent = c /\ calls[p].fn = "refreshProfiles" /\ calls[p].st = "sent"
         /\ calls[q].parent = c /\ calls[q].fn = "refreshCategories"
         /\ calls[q].st = "sent" /\ calls[q].gid = "B"

\* query.searchTerm
searchTermOf(query) == query.items[2].items[1].s

\* C14: with game A published and the mod query customised (searchTerm
\* "foo"), the step in which the promise of setActiveGame(B) resolves leaves
\* game B published and modQuery.searchTerm = "".
C14_SwitchCompletesReset ==
  [][\A c \in DOMAIN calls :
       (/\ calls[c].fn = "setActiveGame"
        /\ calls[c].gid = "B"
        /\ Settles(c, "resolved")
        /\ activeGame = Game("A")
        /\ searchTermOf(modQuery) = "foo")
       => /\ activeGame' = Game("B")
          /\ searchTermOf(modQuery') = ""]_vars

\* C15: overlapping refreshes are last-write-wins. When the response of a
\* refreshGames call is delivered while other refreshGames calls exist,
\* issued before or after it, games and activeGame take the content of the
\* delivered response, and every other call stays as it was: still in
\* flight if it was, neither cancelled nor held back.
C15_LastDeliveredWins ==
  [][\A c \in DOMAIN calls :
       (/\ calls[c].fn = "refreshGames"
        /\ calls[c].st = "ok"
        /\ Settles(c, "resolved")
        /\ \E d \in DOMAIN calls \ {c} : calls[d].fn = "refreshGames")
       => /\ games' = stampFavorites(AllGames, calls[c].data.favorites)
          /\ activeGame' = Game(calls[c].data.active)
          /\ \A d \in DOMAIN calls \ {c} : calls'[d] = calls[d]]_vars

\* C15 witness: the backend has B active, both refreshGames calls have
\* resolved, nothing failed or is in flight, and the game published is A:
\* the response of the call issued first (by the module body, read before
\* set_active_game(B)) was delivered last
C15_Witness ==
  /\ Quiescent
  /\ NoFailure
  /\ bActive = "B"
  /\ activeGame = Game("A")
  /\ games = stampFavorites(AllGames, Favorites)
  /\ \E c, d \in DOMAIN calls :
       /\ c < d
       /\ calls[c].fn = "refreshGames" /\ calls[c].st = "resolved"
       /\ calls[d].fn = "refreshGames" /\ calls[d].st = "resolved"

\* C16: write-through. In every state, the storage entry under the key of
\* each query store is the serialization of that store's current value:
\* creation, every set by a page and every set by the game-change reset has
\* written its value by the end of the step that made it.
C16_WriteThrough ==
  \A k \in Keys : localStorage[k] = Item(JSONstringify(valueOf(k)))

\* C16 witness: after game B was published (and both queries reset), both
\* stores were set by the pages and storage holds what they were set to
C16_Witness ==
  /\ activeGame = Game("B")
  /\ modQuery = customQuery
  /\ profileQuery = customQuery
  /\ \A k \in Keys : localStorage[k] = Item(JSONstringify(customQuery))

Mutators == {"setActiveGame", "setActiveProfile"}
\* the refresh a mutator calls after its command
refreshOf(fn) == IF fn = "setActiveGame" THEN "refreshGames" ELSE "refreshProfiles"

\* C17: mutator ordering. A call made by the body of setActiveGame or
\* setActiveProfile is made in the step in which the answer to its command
\* (set_active_game with the game's id, set_active_profile with the index,
\* already applied by the backend) is delivered and the mutator resolves; it
\* is the matching refresh with its request just issued; and a mutator that
\* resolves makes exactly one call, a mutator that rejects makes none.
C17_RefreshAfterCommand ==
  [][/\ \A d \in DOMAIN calls' \ DOMAIN calls :
          LET p == calls'[d].parent IN
          (p # 0 /\ calls'[p].fn \in Mutators)
            => /\ p \in DOMAIN calls
               /\ calls[p].st = "ok"
               /\ calls'[p].st = "resolved"
               /\ calls'[d].fn = refreshOf(calls[p].fn)
               /\ calls'[d].st = "sent"
     /\ \A p \in DOMAIN calls :
          calls[p].fn \in Mutators
            => /\ Settles(p, "resolved") => Cardinality(madeBy(p)) = 1
               /\ ~Settles(p, "resolved") => madeBy(p) = {}]_vars

\* C17 witness: setActiveProfile(1) has resolved, the backend holds index 1,
\* and the one call it made is a refreshProfiles whose request is unanswered
C17_Witness ==
  \E p \in DOMAIN calls :
    /\ calls[p].fn = "setActiveProfile"
    /\ calls[p].idx = 1
    /\ calls[p].st = "resolved"
    /\ bIndex[bActive] = 1
    /\ \E d \in DOMAIN calls :
         /\ calls[d].parent = p
         /\ calls[d].fn = "refreshProfiles"
         /\ calls[d].st = "sent"
         /\ \A e \in DOMAIN calls : calls[e].parent = p => e = d

\* C18: in the step that delivers a get_game_info response, games becomes
\* the all list of the backend, in its order and with nothing else, and each
\* game's favorite flag is true exactly when its id is in the favorites list
\* of that response, whatever the flags of the previous list were.
C18_GamesReplacedAndStamped ==
  [][\A c \in DOMAIN calls :
       (calls[c].fn = "refreshGames" /\ calls[c].st = "ok" /\ Settles(c, "resolved"))
       => /\ Len(games') = Len(AllGames)
          /\ \A i \in DOMAIN games' :
               /\ games'[i].id = AllGames[i]
               /\ games'[i].favorite
                    <=> \E j \in DOMAIN calls[c].data.favorites :
                          calls[c].data.favorites[j] = games'[i].id]_vars

\* C18 witness: two responses were delivered; the list now published has
\* only game B as favorite although the backend's favorites are now A and B
\* (the list shown before was replaced by the response delivered last)
C18_Witness ==
  /\ \A c \in DOMAIN calls : calls[c].fn = "refreshGames" => calls[c].st = "resolved"
  /\ Len(calls) > 4
  /\ games = << [id |-> "A", favorite |-> FALSE], [id |-> "B", favorite |-> TRUE],
                [id |-> "C", favorite |-> FALSE] >>
  /\ bFavorites = <<"A", "B">>

\* the index is a position of the list
InRange(list, index) == index >= 0 /\ index < Len(list)

\* C19: when a get_profile_info response whose activeIndex is outside the
\* positions of its profiles list (an empty list included) is delivered,
\* refreshProfiles resolves, profiles and activeProfileIndex are published
\* as received and activeProfile is undefined.
C19_OutOfRangeIndex ==
  [][\A c \in DOMAIN calls :
       (/\ calls[c].fn = "refreshProfiles"
        /\ calls[c].st = "ok"
        /\ calls'[c].st # "ok"
        /\ ~InRange(ProfilesOf(calls[c].data.active), calls[c].data.activeIndex))
       => /\ calls'[c].st = "resolved"
          /\ profiles' = ProfilesOf(calls[c].data.active)
          /\ activeProfileIndex' = calls[c].data.activeIndex
          /\ activeProfile' = UndefinedProfile]_vars

\* C19 witness: the envelope {activeIndex: 1, [Solo]} of game B was
\* delivered: index 1 of a list of one profile
C19_Witness ==
  /\ profiles = ProfilesOf("B")
  /\ activeProfileIndex = 1
  /\ activeProfile = UndefinedProfile
  /\ \E c \in DOMAIN calls :
       /\ calls[c].fn = "refreshProfiles"
       /\ calls[c].st = "resolved"
       /\ calls[c].parent # 0
       /\ calls[calls[c].parent].fn = "setActiveProfile"

\* C20: startup wipes the stored queries. Whatever an earlier session left
\* under the two keys, in the state right after the module body has run,
\* with its refreshGames request unanswered and no game published, modQuery
\* and profileQuery are their defaults and storage holds the serialized
\* defaults under both keys.
C20_StartupWipesQueries ==
  [][(modQuery = Undefined /\ modQuery' # Undefined)
       => /\ modQuery' = defaultModQuery
          /\ profileQuery' = defaultProfileQuery
          /\ \A k \in Keys : localStorage'[k] = Item(JSONstringify(DefaultOf(k)))
          /\ activeGame' = NoGame
          /\ calls'[Len(calls')] = Call("refreshGames", 0, "", 0, "sent")]_vars

\* C20 witness: the module body has run a second time, after a session
\* that ended, and both queries and both entries are the defaults
C20_Witness ==
  /\ Len(calls) = 2
  /\ modQuery = defaultModQuery
  /\ profileQuery = defaultProfileQuery
  /\ \A k \in Keys : localStorage[k] = Item(JSONstringify(DefaultOf(k)))

\* C21: refreshGames resolves whatever becomes of its cascade. In the step
\* in which the get_profile_info or the catalog request of a refreshProfiles
\* or refreshCategories started by a refreshGames call fails, that
\* refreshGames call has already resolved and stays resolved, no other call
\* changes (the failure reaches no caller), and every slice keeps its value:
\* activeGame as published by a get_game_info response, profiles,
\* activeProfileIndex, activeProfile and categories as obtained before.
C21_CascadeFailureStaysLocal ==
  [][\A c \in DOMAIN calls :
       (/\ calls[c].parent # 0
        /\ calls[calls[c].parent].fn = "refreshGames"
        /\ Settles(c, "rejected"))
       => /\ calls[calls[c].parent].st = "resolved"
          /\ \A d \in DOMAIN calls \ {c} : calls'[d] = calls[d]
          /\ DOMAIN calls' = DOMAIN calls
          /\ UNCHANGED slices]_vars

\* C21 witness: after setActiveGame(B) the refreshGames it made resolved
\* and published B, the get_profile_info of its cascade failed, and the
\* profiles published are still those of game A; setActiveGame and
\* refreshGames are resolved
C21_Witness ==
  /\ activeGame = Game("B")
  /\ profiles = ProfilesOf("A")
  /\ activeProfile = ProfileInfo("Default", 0)
  /\ \E m, g, p \in DOMAIN calls :
       /\ calls[m].fn = "setActiveGame" /\ calls[m].st = "resolved"
       /\ calls[g].fn = "refreshGames" /\ calls[g].parent = m
       /\ calls[g].st = "resolved"
       /\ calls[p].fn = "refreshProfiles" /\ calls[p].parent = g
       /\ calls[p].st = "rejected"

\* the calls of function fn that descend from the call r of the user
\* interface or of the module body, r included
callsUnder(r, fn) ==
  {d \in DOMAIN calls : rootOf(calls, d) = r /\ calls[d].fn = fn}

\* each operation issues each of its requests at most once, and
\* setActiveProfile never reaches get_game_info or the catalog
AtMostOnceEach ==
  \A r \in UserCalls :
    /\ \A fn \in Commands \cup {"refreshCategories"} :
         Cardinality(callsUnder(r, fn)) <= 1
    /\ calls[r].fn = "setActiveProfile"
         => /\ callsUnder(r, "refreshGames") = {}
            /\ callsUnder(r, "refreshCategories") = {}

\* C22: no feedback loop and quiescence. Under every call of the user
\* interface there is at most one call of each async function (so at most
\* one request of each kind); a step that changes a query makes no call
\* beyond the two a delivered get_game_info response always makes; when no
\* request is in flight the only steps left are those of the user
\* interface; and once the requests are answered no request is in flight,
\* for good.
C22_QuiescenceReached ==
  /\ []AtMostOnceEach
  /\ [][/\ <<modQuery, profileQuery>>' # <<modQuery, profileQuery>>
            => \/ calls' = calls
               \/ \E c \in DOMAIN calls :
                    /\ calls[c].fn = "refreshGames"
                    /\ Settles(c, "resolved")
                    /\ Len(calls') = Len(calls) + 2
        /\ Quiescent
            => /\ UNCHANGED <<backend, slices>>
               /\ \/ calls' = calls
                  \/ /\ Len(calls') = Len(calls) + 1
                     /\ calls'[Len(calls')].parent = 0
                     /\ SubSeq(calls', 1, Len(calls)) = calls]_vars
  /\ <>[]Quiescent

\* C22 witness: setActiveGame(B) has run to its end: one set_active_game,
\* one get_game_info, one get_profile_info and one catalog request, all
\* settled, and nothing is in flight
C22_Witness ==
  /\ Quiescent
  /\ activeGame = Game("B")
  /\ \E r \in UserCalls :
       /\ calls[r].fn = "setActiveGame"
       /\ \A fn \in {"setActiveGame", "refreshGames", "refreshProfiles", "refreshCategories"} :
            Cardinality(callsUnder(r, fn)) = 1

====
